---- MODULE Spec2Model ----
(***************************************************************************)
(* Model of the Inflyte DJ monitor (src/src/main.rs): the per-campaign     *)
(* check cycle check_for_new_djs (fetch, load previous, diff, notify,      *)
(* save, update stats), the snapshot document kept in blob storage, and    *)
(* the startup pass / periodic loop of main.                               *)
(*                                                                         *)
(* Strings are sequences of one-character strings where the code inspects  *)
(* their characters (URLs, blob names).  Option<T> is a set with at most   *)
(* one element: {} is None and {x} is Some(x).  A JSON value that may be   *)
(* null is a sequence with at most one element: <<>> is null.              *)
(***************************************************************************)
EXTENDS Integers, Sequences, FiniteSets, TLC

VARIABLES
    campaigns,      \* config.campaigns: Vec<Campaign>, fixed after startup
    store,          \* blob container: blob name -> stored document
    page,           \* per campaign: record set of the page at its latest successful fetch
    campaign_stats, \* AppState.campaign_stats: Vec<CampaignStats>
    mainpc,         \* position of main: "startup", "first_tick", "wait", "periodic", "exited"
    idx,            \* index of the campaign the for loop of main is at
    tick,           \* number of periodic passes started so far
    lag,            \* interval deadline minus current time (time units)
    pc,             \* position inside check_for_new_djs
    current_djs,    \* local of check_for_new_djs
    previous_djs,   \* local of check_for_new_djs
    new_djs,        \* local of check_for_new_djs
    result,         \* what check_for_new_djs returns: "none" (running), "ok", "err"
    obs,            \* history of the running cycle (observation only)
    lastNotifyFailed, \* per campaign: its latest cycle had a failed notification and returned Ok
    okNotified,     \* per campaign: records handed to a successful notification since the page last changed
    dupNotified,    \* some record was handed to a successful notification twice while the page was unchanged
    sinceEntry,     \* time elapsed since the interval was created, saturating at Period
    passLog,        \* campaigns whose cycle was started in the current pass, in order
    stats_lock,     \* the RwLock of campaign_stats: "free", "write" or "read"
    http_body       \* the latest response of the HTTP server

vars == <<campaigns, store, page, campaign_stats, mainpc, idx, tick, lag, pc,
          current_djs, previous_djs, new_djs, result, obs, lastNotifyFailed,
          okNotified, dupNotified, sinceEntry, passLog, stats_lock, http_body>>

(***************************************************************************)
(* Bounds of the model.                                                    *)
(***************************************************************************)
\* The check interval, in time units (check_interval_minutes * 60 seconds).
Period == 2
\* How far behind its deadline the timer may fall before time stops advancing.
MaxLate == 3
\* Number of periodic passes the model follows after the startup pass.
MaxTicks == 1

(***************************************************************************)
(* Record model.                                                           *)
(***************************************************************************)
\* u8: the width of DjSupport.stars.
U8Max == 255

DjSupport(n, c, s) == [name |-> n, comment |-> c, stars |-> s]

Ana0 == DjSupport("Ana", {}, {})
Ana3 == DjSupport("Ana", {"Great track!"}, {3})
Ben0 == DjSupport("Ben", {}, {})

\* The record sets a page is observed to hold.
PageSets == { {}, {Ana0}, {Ana3, Ben0} }

\* A mutant of DjEq: identity by name only.
DjEqByName(a, b) == a.name = b.name

\* #[derive(PartialEq, Eq, Hash)] on DjSupport: all three fields.
DjEq(a, b) == a.name = b.name /\ a.comment = b.comment /\ a.stars = b.stars

\* A mutant of Difference: every current record counts as new.
DifferenceAll(cur, prev) == cur

\* HashSet::difference: the elements of cur that prev does not contain.
Difference(cur, prev) == { d \in cur : ~ \E p \in prev : DjEq(d, p) }

(***************************************************************************)
(* Campaigns and blob names.                                               *)
(***************************************************************************)
RECURSIVE TrimEndSlash(_)
\* str::trim_end_matches('/')
TrimEndSlash(s) ==
    IF s # <<>> /\ s[Len(s)] = "/"
    THEN TrimEndSlash(SubSeq(s, 1, Len(s) - 1))
    ELSE s

RECURSIVE LastSegment(_)
\* rsplit('/').next(): the text after the last '/', the whole text if there is none.
\* rsplit always yields at least one item, so unwrap_or("unknown") is never taken.
LastSegment(s) ==
    IF s = <<>> \/ s[Len(s)] = "/"
    THEN <<>>
    ELSE LastSegment(SubSeq(s, 1, Len(s) - 1)) \o <<s[Len(s)]>>

extract_campaign_name(url) == LastSegment(TrimEndSlash(url))

\* Config::from_env: one Campaign per URL, in order, named from its URL.
MkCampaigns(urls) ==
    [i \in 1..Len(urls) |-> [url |-> urls[i], name |-> extract_campaign_name(urls[i])]]

\* AZURE_BLOB_NAME_PREFIX default.
BlobPrefix == <<"dj_list">>

get_blob_name(campaign) == BlobPrefix \o <<"_">> \o campaign.name \o <<".json">>

\* The URLs the monitor is started with (after de-duplication).
Urls == << <<"h", "/", "r", "/", "a">>, <<"h", "/", "r", "/", "b", "/">> >>

N == Len(campaigns)
Campaign == campaigns[idx]
Blob == get_blob_name(campaigns[idx])
BlobNames == { get_blob_name(campaigns[i]) : i \in 1..Len(campaigns) }

(***************************************************************************)
(* Stored documents.  A document is the JSON text of a blob: the elements  *)
(* of its "djs" array, split into objects and bare strings (array order    *)
(* is lost when the loader collects into a HashSet).                       *)
(***************************************************************************)
NoBlob == [exists |-> FALSE, valid |-> FALSE, objs |-> {}, strs |-> {}]

JsonDoc(objs, strs) == [exists |-> TRUE, valid |-> TRUE, objs |-> objs, strs |-> strs]

\* Content that is not JSON of either shape (or not UTF-8).
BadDoc == [exists |-> TRUE, valid |-> FALSE, objs |-> {}, strs |-> {}]

\* A legacy document: {"djs": ["Ana", "Ben"]}.
LegacyDoc == JsonDoc({}, {"Ana", "Ben"})

OptToJson(o) == IF o = {} THEN <<>> ELSE <<CHOOSE x \in o : TRUE>>
JsonToOpt(j) == IF j = <<>> THEN {} ELSE {j[1]}

\* A mutant of DjToJson: the rating is not written.
DjToJsonNoStars(d) == [name |-> d.name, comment |-> OptToJson(d.comment), stars |-> <<>>]

\* Serialize for DjSupport.
DjToJson(d) == [name |-> d.name, comment |-> OptToJson(d.comment), stars |-> OptToJson(d.stars)]
\* Deserialize for DjSupport.
JsonToDj(o) == DjSupport(o.name, JsonToOpt(o.comment), JsonToOpt(o.stars))

\* serde_json::to_string_pretty(&DjStorage { djs })
Serialize(djs) == JsonDoc({ DjToJson(d) : d \in djs }, {})

\* serde_json::from_str::<DjStorage>: every element an object whose stars fit u8.
ParseNewOk(doc) ==
    /\ doc.valid
    /\ doc.strs = {}
    /\ \A o \in doc.objs : o.stars = <<>> \/ o.stars[1] \in 0..U8Max
ParseNew(doc) == { JsonToDj(o) : o \in doc.objs }

\* serde_json::from_str::<OldDjStorage>: every element a bare string.
ParseOldOk(doc) == doc.valid /\ doc.objs = {}
ParseOld(doc) == { DjSupport(s, {}, {}) : s \in doc.strs }

\* A mutant of load_previous_djs: a missing blob is an error.
LoadStrict(doc, readOk) ==
    IF ~ readOk THEN [ok |-> FALSE, djs |-> {}]
    ELSE IF ParseNewOk(doc) THEN [ok |-> TRUE, djs |-> ParseNew(doc)]
    ELSE IF ParseOldOk(doc) THEN [ok |-> TRUE, djs |-> ParseOld(doc)]
    ELSE [ok |-> FALSE, djs |-> {}]

\* A mutant of load_previous_djs: a document of neither format loads as the empty set.
LoadLenient(doc, readOk) ==
    IF ~ readOk THEN [ok |-> TRUE, djs |-> {}]
    ELSE IF ParseNewOk(doc) THEN [ok |-> TRUE, djs |-> ParseNew(doc)]
    ELSE IF ParseOldOk(doc) THEN [ok |-> TRUE, djs |-> ParseOld(doc)]
    ELSE [ok |-> TRUE, djs |-> {}]

\* load_previous_djs: readOk is whether get_content returned the content.
load_previous_djs(doc, readOk) ==
    IF ~ readOk THEN [ok |-> TRUE, djs |-> {}]
    ELSE IF ParseNewOk(doc) THEN [ok |-> TRUE, djs |-> ParseNew(doc)]
    ELSE IF ParseOldOk(doc) THEN [ok |-> TRUE, djs |-> ParseOld(doc)]
    ELSE [ok |-> FALSE, djs |-> {}]

\* A mutant of blob_after_load: a legacy document is rewritten in the new format.
LoadMigrates(doc) ==
    IF doc.exists /\ ~ ParseNewOk(doc) /\ ParseOldOk(doc) THEN Serialize(ParseOld(doc)) ELSE doc

\* load_previous_djs only reads (get_content): the blob is as it was.
blob_after_load(doc) == doc

\* save_djs: the document uploaded for the set.
save_djs(djs) == Serialize(djs)

\* A mutant of put_block_blob: the upload is merged into the existing blob.
PutMerge(old, new) == JsonDoc(old.objs \cup new.objs, old.strs \cup new.strs)

\* put_block_blob: the upload replaces the blob, whatever it held.
put_block_blob(old, new) == new

\* The stored snapshot is empty: no blob, or a document with an empty list.
StoredEmpty(doc) == ~ doc.exists \/ (doc.valid /\ doc.objs = {} /\ doc.strs = {})

(***************************************************************************)
(* check_for_new_djs, one action per suspension point.                     *)
(***************************************************************************)
\* No request has been answered yet.
NoBody == [kind |-> "none", campaigns |-> <<>>]

ObsIdle ==
    [stages |-> <<>>, fetched |-> "none", sent |-> "none", storeAtStart |-> NoBlob,
     readErr |-> "none", samePage |-> FALSE, emptyAtLoad |-> FALSE, initial |-> FALSE,
     html |-> <<>>]

\* A mutant of fetch_dj_list: a failed fetch is taken for an empty page.
FetchSwallow(ok, content) == [ok |-> TRUE, djs |-> IF ok THEN content ELSE {}]

\* fetch_dj_list: the records extracted from the page, or the fetch error.
fetch_dj_list(ok, content) == [ok |-> ok, djs |-> IF ok THEN content ELSE {}]

\* A mutant of IsInitialRun: the first cycle of a campaign since the process
\* started is the initial one (decided from memory, not from the store).
InitialSinceStart(prev) ==
    \A i \in 1..Len(campaign_stats) : campaign_stats[i].name # campaigns[idx].name

\* A mutant of IsInitialRun: no cycle is classified as initial.
NeverInitial(prev) == FALSE

\* previous_djs.is_empty()
IsInitialRun(prev) == prev = {}

\* A mutant of AfterNotify: a failed notification ends the cycle in error.
AfterNotifyPropagate(ok) == IF ok THEN "save" ELSE "ret"

\* if let Err(e) = send_email_alert(..) { error!(..) }: the cycle goes on to save.
AfterNotify(ok) == "save"

\* info!("Checking for new DJs"): main enters check_for_new_djs for campaigns[idx].
StartCycle ==
    /\ mainpc \in {"startup", "periodic"}
    /\ pc = "idle"
    /\ idx <= N
    /\ pc' = "fetch"
    /\ result' = "none"
    /\ obs' = [ObsIdle EXCEPT !.storeAtStart = store[Blob]]
    /\ passLog' = Append(passLog, idx)
    /\ UNCHANGED <<stats_lock, http_body, campaigns, store, page, campaign_stats, mainpc, idx, tick, lag,
                   current_djs, previous_djs, new_djs, lastNotifyFailed,
                   okNotified, dupNotified, sinceEntry>>

\* let current_djs = fetch_dj_list(&campaign.url).await?;
Fetch ==
    /\ pc = "fetch"
    /\ \E ok \in BOOLEAN, content \in PageSets :
         LET r == fetch_dj_list(ok, content) IN
         /\ obs' = [obs EXCEPT !.stages = Append(@, "fetch"),
                               !.fetched = IF ok THEN "ok" ELSE "failed",
                               !.samePage = ok /\ content = page[idx]]
         /\ page' = IF ok THEN [page EXCEPT ![idx] = content] ELSE page
         /\ okNotified' = IF ok /\ content # page[idx]
                          THEN [okNotified EXCEPT ![idx] = {}]
                          ELSE okNotified
         /\ IF r.ok
            THEN /\ current_djs' = r.djs
                 /\ pc' = "load"
                 /\ result' = result
            ELSE /\ current_djs' = current_djs
                 /\ pc' = "ret"
                 /\ result' = "err"
    /\ UNCHANGED <<stats_lock, http_body, campaigns, store, campaign_stats, mainpc, idx, tick, lag,
                   previous_djs, new_djs, lastNotifyFailed, dupNotified,
                   sinceEntry, passLog>>

\* let previous_djs = load_previous_djs(config, campaign).await?;
\* get_content fails on a missing blob, and may fail on an existing one.
Load ==
    /\ pc = "load"
    /\ \E readOk \in BOOLEAN :
         /\ readOk => store[Blob].exists
         /\ LET r == load_previous_djs(store[Blob], readOk) IN
            /\ obs' = [obs EXCEPT !.stages = Append(@, "load"),
                                  !.readErr = IF readOk THEN "none"
                                              ELSE IF store[Blob].exists THEN "other"
                                              ELSE "notfound",
                                  !.emptyAtLoad = StoredEmpty(store[Blob])]
            /\ IF r.ok
               THEN /\ previous_djs' = r.djs
                    /\ pc' = "diff"
                    /\ result' = result
               ELSE /\ previous_djs' = previous_djs
                    /\ pc' = "ret"
                    /\ result' = "err"
    /\ store' = [store EXCEPT ![Blob] = blob_after_load(@)]
    /\ UNCHANGED <<stats_lock, http_body, campaigns, page, campaign_stats, mainpc, idx, tick, lag,
                   current_djs, new_djs, lastNotifyFailed, okNotified,
                   dupNotified, sinceEntry, passLog>>

\* if previous_djs.is_empty() { .. } else { let new_djs = difference; if !new_djs.is_empty() .. }
Diff ==
    /\ pc = "diff"
    /\ IF IsInitialRun(previous_djs)
       THEN /\ new_djs' = {}
            /\ pc' = "save"
            /\ obs' = [obs EXCEPT !.initial = TRUE]
       ELSE /\ new_djs' = Difference(current_djs, previous_djs)
            /\ pc' = IF new_djs' # {} THEN "notify" ELSE "save"
            /\ obs' = obs
    /\ UNCHANGED <<stats_lock, http_body, campaigns, store, page, campaign_stats, mainpc, idx, tick, lag,
                   current_djs, previous_djs, result, lastNotifyFailed,
                   okNotified, dupNotified, sinceEntry, passLog>>

\* send_email_alert(config, campaign, &new_djs).await, its error only logged.
Notify ==
    /\ pc = "notify"
    /\ \E ok \in BOOLEAN :
         /\ obs' = [obs EXCEPT !.stages = Append(@, "notify"),
                               !.sent = IF ok THEN "ok" ELSE "failed"]
         /\ pc' = AfterNotify(ok)
         /\ result' = IF AfterNotify(ok) = "ret" THEN "err" ELSE result
         /\ okNotified' = IF ok
                          THEN [okNotified EXCEPT ![idx] = @ \cup new_djs]
                          ELSE okNotified
         /\ dupNotified' = (dupNotified \/ (ok /\ new_djs \cap okNotified[idx] # {}))
    /\ UNCHANGED <<stats_lock, http_body, campaigns, store, page, campaign_stats, mainpc, idx, tick, lag,
                   current_djs, previous_djs, new_djs, lastNotifyFailed,
                   sinceEntry, passLog>>

\* A mutant of AfterSave: the error of save_djs is dropped and the stats are updated.
AfterSaveIgnoreError(ok) == "stats"

\* save_djs(..).await?: on Ok the cycle goes on to update_campaign_stats, on Err it returns.
AfterSave(ok) == IF ok THEN "stats" ELSE "ret"

\* save_djs(config, campaign, &current_djs).await?; (both branches)
Save ==
    /\ pc = "save"
    /\ \E ok \in BOOLEAN :
         /\ obs' = [obs EXCEPT !.stages = Append(@, "save")]
         /\ store' = IF ok
                     THEN [store EXCEPT ![Blob] = put_block_blob(@, save_djs(current_djs))]
                     ELSE store
         /\ pc' = AfterSave(ok)
         /\ result' = IF AfterSave(ok) = "ret" THEN "err" ELSE result
    /\ UNCHANGED <<stats_lock, http_body, campaigns, page, campaign_stats, mainpc, idx, tick, lag,
                   current_djs, previous_djs, new_djs, lastNotifyFailed,
                   okNotified, dupNotified, sinceEntry, passLog>>

RECURSIVE FindStat(_, _, _)
\* stats.iter_mut().find(|s| s.name == name): index of the first match, 0 if none.
FindStat(stats, name, i) ==
    IF i > Len(stats) THEN 0
    ELSE IF stats[i].name = name THEN i
    ELSE FindStat(stats, name, i + 1)

\* A mutant of update_campaign_stats: an entry is pushed at every update.
UpdateStatsPush(stats, campaign, dj_count, now) ==
    Append(stats, [name |-> campaign.name, url |-> campaign.url,
                   dj_count |-> dj_count, last_checked |-> {now}])

\* update_campaign_stats: the entry of the campaign's name is updated, or one is pushed.
update_campaign_stats(stats, campaign, dj_count, now) ==
    LET i == FindStat(stats, campaign.name, 1) IN
    IF i # 0
    THEN [stats EXCEPT ![i].dj_count = dj_count, ![i].last_checked = {now}]
    ELSE Append(stats, [name |-> campaign.name, url |-> campaign.url,
                        dj_count |-> dj_count, last_checked |-> {now}])

\* update_campaign_stats(state, campaign, current_djs.len()).await?; then Ok(())
UpdateStats ==
    /\ pc = "stats"
    /\ campaign_stats' = update_campaign_stats(campaign_stats, Campaign,
                                               Cardinality(current_djs), tick)
    /\ obs' = [obs EXCEPT !.stages = Append(@, "stats")]
    /\ pc' = "ret"
    /\ result' = "ok"
    /\ UNCHANGED <<stats_lock, http_body, campaigns, store, page, mainpc, idx, tick, lag, current_djs,
                   previous_djs, new_djs, lastNotifyFailed, okNotified,
                   dupNotified, sinceEntry, passLog>>

(***************************************************************************)
(* main: the startup pass, the interval, the periodic loop.                *)
(***************************************************************************)
\* A mutant of OnCycleResult: the error of a cycle is returned from main.
OnCycleResultPropagate(res, at) == IF res = "err" THEN "exited" ELSE at

\* if let Err(e) = check_for_new_djs(..).await { error!(..) }: main stays in its loop.
OnCycleResult(res, at) == at

\* A mutant of AfterStartup: the immediately completing first tick is not consumed.
AfterStartupNoFirstTick == "wait"

\* interval.tick().await right after time::interval(..): the first tick is consumed.
AfterStartup == "first_tick"

\* A mutant of NextCampaign: a campaign whose cycle failed is checked again at once.
NextCampaignRetry(res, i) == IF res = "err" THEN i ELSE i + 1

\* for campaign in &config.campaigns: the next campaign, whatever the cycle returned.
NextCampaign(res, i) == i + 1

\* check_for_new_djs has returned to the for loop of main, which moves to the next campaign.
Return ==
    /\ pc = "ret"
    /\ pc' = "idle"
    /\ idx' = NextCampaign(result, idx)
    /\ mainpc' = OnCycleResult(result, mainpc)
    /\ lastNotifyFailed' = [lastNotifyFailed EXCEPT ![idx] = (obs.sent = "failed" /\ result = "ok")]
    /\ current_djs' = {}
    /\ previous_djs' = {}
    /\ new_djs' = {}
    /\ result' = "none"
    /\ obs' = ObsIdle
    /\ UNCHANGED <<stats_lock, http_body, campaigns, store, page, campaign_stats, tick, lag, okNotified,
                   dupNotified, sinceEntry, passLog>>

\* let mut interval = time::interval(..): created once the startup pass is over;
\* its first deadline is the time of creation.
EndStartup ==
    /\ mainpc = "startup"
    /\ pc = "idle"
    /\ idx > N
    /\ mainpc' = AfterStartup
    /\ lag' = 0
    /\ sinceEntry' = 0
    /\ UNCHANGED <<stats_lock, http_body, campaigns, store, page, campaign_stats, idx, tick, pc,
                   current_djs, previous_djs, new_djs, result, obs,
                   lastNotifyFailed, okNotified, dupNotified, passLog>>

\* interval.tick().await; // First tick completes immediately
FirstTick ==
    /\ mainpc = "first_tick"
    /\ lag <= 0
    /\ lag' = lag + Period
    /\ mainpc' = "wait"
    /\ UNCHANGED <<stats_lock, http_body, campaigns, store, page, campaign_stats, idx, tick, pc,
                   current_djs, previous_djs, new_djs, result, obs,
                   lastNotifyFailed, okNotified, dupNotified, sinceEntry, passLog>>

\* loop { interval.tick().await; for campaign in &config.campaigns { .. } }
\* A tick completes once its deadline is reached; the next deadline is one period later.
Tick ==
    /\ mainpc = "wait"
    /\ lag <= 0
    /\ tick < MaxTicks
    /\ lag' = lag + Period
    /\ tick' = tick + 1
    /\ mainpc' = "periodic"
    /\ idx' = 1
    /\ passLog' = <<>>
    /\ UNCHANGED <<stats_lock, http_body, campaigns, store, page, campaign_stats, pc, current_djs,
                   previous_djs, new_djs, result, obs, lastNotifyFailed,
                   okNotified, dupNotified, sinceEntry>>

\* The for loop of a periodic pass is over: back to interval.tick().await.
EndPass ==
    /\ mainpc = "periodic"
    /\ pc = "idle"
    /\ idx > N
    /\ mainpc' = "wait"
    /\ UNCHANGED <<stats_lock, http_body, campaigns, store, page, campaign_stats, idx, tick, lag, pc,
                   current_djs, previous_djs, new_djs, result, obs,
                   lastNotifyFailed, okNotified, dupNotified, sinceEntry, passLog>>

\* One time unit passes (tracked once the interval exists).
TimeAdvance ==
    /\ mainpc \in {"first_tick", "wait", "periodic"}
    /\ lag > - MaxLate
    /\ lag' = lag - 1
    /\ sinceEntry' = IF sinceEntry < Period THEN sinceEntry + 1 ELSE sinceEntry
    /\ UNCHANGED <<stats_lock, http_body, campaigns, store, page, campaign_stats, mainpc, idx, tick, pc,
                   current_djs, previous_djs, new_djs, result, obs,
                   lastNotifyFailed, okNotified, dupNotified, passLog>>

(***************************************************************************)
(* Specification.                                                          *)
(***************************************************************************)
\* What a blob may hold when the monitor starts.
InitDocs == {NoBlob, LegacyDoc, BadDoc, Serialize({Ana0})}

Init ==
    /\ campaigns = MkCampaigns(Urls)
    /\ store \in [BlobNames -> InitDocs]
    /\ page = [i \in 1..Len(campaigns) |-> {}]
    /\ campaign_stats = <<>>
    /\ mainpc = "startup"
    /\ idx = 1
    /\ tick = 0
    /\ lag = 0
    /\ pc = "idle"
    /\ current_djs = {}
    /\ previous_djs = {}
    /\ new_djs = {}
    /\ result = "none"
    /\ obs = ObsIdle
    /\ lastNotifyFailed = [i \in 1..Len(campaigns) |-> FALSE]
    /\ okNotified = [i \in 1..Len(campaigns) |-> {}]
    /\ dupNotified = FALSE
    /\ sinceEntry = 0
    /\ passLog = <<>>
    /\ stats_lock = "free"
    /\ http_body = NoBody

Next ==
    \/ StartCycle
    \/ Fetch
    \/ Load
    \/ Diff
    \/ Notify
    \/ Save
    \/ UpdateStats
    \/ Return
    \/ EndStartup
    \/ FirstTick
    \/ Tick
    \/ EndPass
    \/ TimeAdvance

Spec == Init /\ [][Next]_vars

\* The steps main takes by itself: entering a cycle, the code between two awaits of
\* check_for_new_djs, the for loops and the ticks of the interval.  The awaits on
\* a collaborator (Fetch, Load, Notify, Save) are not among them.
MainStep ==
    \/ StartCycle
    \/ Diff
    \/ UpdateStats
    \/ Return
    \/ EndStartup
    \/ FirstTick
    \/ Tick
    \/ EndPass

\* The runtime keeps polling main and the clock keeps running: a step of main that
\* stays possible is eventually taken, and time passes.  Nothing is assumed of the
\* collaborators: reqwest::get, get_content, the Mailgun send and put_block_blob
\* are awaited without a timeout, so a cycle may stay in one of them for ever.
FairSpec == Spec /\ WF_vars(MainStep) /\ WF_vars(TimeAdvance)

(***************************************************************************)
(* Observations on the running cycle.                                      *)
(***************************************************************************)
Stages == { obs.stages[i] : i \in 1..Len(obs.stages) }

\* load_previous_djs has returned Ok in the running cycle.
PastLoad == "load" \in Stages /\ (pc # "ret" \/ Len(obs.stages) >= 3)

\* The running cycle is past the diff (it reached save_djs).
PastDiff == pc \in {"save", "stats"} \/ (pc = "ret" /\ "save" \in Stages)

\* send_email_alert has been called in the running cycle.
Notified == obs.sent # "none"

\* The running cycle has returned Ok.
CycleOk == pc = "ret" /\ result = "ok"

\* The set a successful read of the document yields.
Snapshot(doc) == load_previous_djs(doc, TRUE).djs

AllTargets == [i \in 1..Len(Urls) |-> i]

(***************************************************************************)
(* Claims.                                                                 *)
(***************************************************************************)

\* C1: in a cycle whose loaded previous set is non-empty, the set handed to the
\* notifier is exactly current minus previous under equality on all three fields
\* (a record whose name is in previous but whose comment or stars differ is in
\* it), and a notification is sent iff that set is non-empty.
C1_StructuralDiff ==
    /\ (pc = "notify" \/ Notified) =>
          /\ previous_djs # {}
          /\ new_djs = current_djs \ previous_djs
          /\ new_djs # {}
          /\ \A d \in current_djs :
                (\E p \in previous_djs : p.name = d.name /\ p # d) /\ d \notin previous_djs
                   => d \in new_djs
    /\ (PastDiff /\ previous_djs # {}) =>
          (Notified <=> current_djs \ previous_djs # {})

\* C1 witness: a record is about to be reported whose name is in previous with a
\* different comment and rating.
C1_Witness ==
    /\ pc = "notify"
    /\ \E d \in new_djs : \E p \in previous_djs : p.name = d.name /\ p.comment # d.comment

\* C2: in a cycle whose loaded previous set is empty, no notification is sent
\* whatever the size of the current set, the cycle takes the initial branch and
\* the current set is what it saves as the baseline.
C2_FirstRun ==
    (PastLoad /\ previous_djs = {}) =>
        /\ pc # "notify"
        /\ ~ Notified
        /\ PastDiff => obs.initial
        /\ (pc = "stats" \/ CycleOk) => store[Blob] = Serialize(current_djs)

\* C2 witness: an initial cycle has returned Ok with two records on the page.
C2_Witness ==
    /\ CycleOk
    /\ obs.initial
    /\ Cardinality(current_djs) = 2
    /\ Snapshot(store[Blob]) = current_djs

\* C3: a failed notification does not end the cycle: save_djs is still called
\* with the current set, the cycle ends in error only if that save fails, and
\* the next cycle of the campaign, on the same page content, reports nothing.
C3_NotifyFailureStillSaves ==
    /\ obs.sent = "failed" =>
          /\ pc \in {"save", "stats", "ret"}
          /\ pc = "ret" => "save" \in Stages
          /\ (pc = "ret" /\ result = "err") => obs.stages[Len(obs.stages)] = "save"
          /\ (pc = "stats" \/ CycleOk) => store[Blob] = Serialize(current_djs)
    /\ (pc # "idle" /\ lastNotifyFailed[idx] /\ obs.samePage) =>
          /\ pc # "notify"
          /\ ~ Notified

\* C3 witness: the cycle after a failed notification, on the same page content,
\* has returned Ok without calling the notifier.
C3_Witness ==
    /\ CycleOk
    /\ lastNotifyFailed[idx]
    /\ obs.samePage
    /\ ~ Notified

\* C4: while the page of a campaign stays the same, no record is handed to a
\* successful notification twice, whatever fails (the original claim).
C4_AtMostOnce == ~ dupNotified

\* C5: a cycle whose page fetch fails returns the error at once: it does not
\* read the store, sends no notification and leaves the stored snapshot as it was.
C5_FetchFailure ==
    obs.fetched = "failed" =>
        /\ pc = "ret"
        /\ result = "err"
        /\ obs.stages = <<"fetch">>
        /\ ~ Notified
        /\ store[Blob] = obs.storeAtStart

\* C5 witness: a fetch has failed for a campaign that has a non-empty snapshot stored.
C5_Witness ==
    /\ pc = "ret"
    /\ obs.fetched = "failed"
    /\ Snapshot(store[Blob]) # {}

\* C6: a read failure on an existing blob ends the cycle in error, without
\* overwriting the snapshot and without the initial branch (the original claim).
C6_ReadErrorEndsCycle ==
    obs.readErr = "other" =>
        /\ pc = "ret"
        /\ result = "err"
        /\ ~ obs.initial
        /\ store[Blob] = obs.storeAtStart

\* C7: a cycle that ends in error leaves main in its loop: the for loop moves to
\* the next campaign exactly as after a cycle that ends Ok, main never exits,
\* the cycle of the next campaign of the pass is then started, and after an error
\* in the last cycle of a pass (the startup pass included) the first cycle of the
\* next tick is started, for every tick the model follows (idx goes back to 1 at
\* a tick only).  Progress is that of main and the timer alone: whether
\* the started cycle itself returns is up to the collaborators it awaits.
C7_FailureIsolation ==
    /\ [](mainpc # "exited")
    /\ [][(pc = "ret" /\ result = "err" /\ pc' # "ret") =>
             (pc' = "idle" /\ idx' = idx + 1 /\ mainpc' = mainpc /\ tick' = tick)]_vars
    /\ \A i \in 1..(Len(Urls) - 1) :
          (pc = "ret" /\ result = "err" /\ idx = i) ~> (pc = "fetch" /\ idx = i + 1)
    /\ (pc = "ret" /\ result = "err" /\ idx = Len(Urls) /\ tick < MaxTicks)
          ~> (pc = "fetch" /\ idx = 1)

\* C7 witness: every cycle of the startup pass and the first cycle of the first
\* periodic pass ended in error (no cycle reached the status update), and the
\* cycle of the second campaign is running.
C7_Witness ==
    /\ tick = 1
    /\ idx = 2
    /\ pc = "fetch"
    /\ campaign_stats = <<>>

\* C8: when a cycle has returned Ok, the stored snapshot of the campaign is
\* exactly the set extracted in that cycle, new records or not: what the page no
\* longer holds is gone from it.
C8_SnapshotReplaced ==
    CycleOk =>
        /\ store[Blob] = Serialize(current_djs)
        /\ Snapshot(store[Blob]) = current_djs

\* C8 witness: a cycle that found nothing new has returned Ok, and a record of
\* the previous snapshot is no longer on the page.
C8_Witness ==
    /\ CycleOk
    /\ ~ obs.initial
    /\ new_djs = {}
    /\ previous_djs \ current_djs # {}
    /\ obs.storeAtStart # store[Blob]

\* C9 (the original claim): once a cycle of a campaign has returned Ok on the
\* initial branch, the records it saved as the baseline are never afterwards
\* among the records a cycle of that campaign hands to the notifier.  Stated for
\* the runs in which no read of an existing blob fails, so that no cycle is
\* initial because of a read error.
C9_BaselineNeverReported ==
    [](obs.readErr # "other") =>
        \A i \in 1..Len(Urls) : \A r \in UNION PageSets :
            []((CycleOk /\ obs.initial /\ idx = i /\ r \in current_djs)
                  => [](~ (Notified /\ idx = i /\ r \in new_djs)))

\* C9 (amended): a cycle that finds the stored snapshot empty (no blob, or an
\* empty list) takes the initial branch and sends nothing; with an empty page the
\* snapshot stays empty, so the next cycle is initial again; with records on the
\* page they become the baseline unreported; and a cycle hands no record to the
\* notifier that is in the snapshot it loaded, so a baseline record is not
\* reported for as long as it stays in the stored snapshot.
C9_EmptySnapshotStaysInitial ==
    /\ ("load" \in Stages /\ obs.emptyAtLoad) =>
          /\ pc # "notify"
          /\ ~ Notified
          /\ PastLoad
          /\ PastDiff => obs.initial
          /\ CycleOk => /\ store[Blob] = Serialize(current_djs)
                        /\ current_djs = {} => StoredEmpty(store[Blob])
    /\ (pc = "notify" \/ Notified) => new_djs \cap Snapshot(obs.storeAtStart) = {}

\* C9 witness: after a pass that stored an empty snapshot, a cycle with records
\* on the page has returned Ok on the initial branch.
C9_Witness ==
    /\ CycleOk
    /\ tick >= 1
    /\ obs.emptyAtLoad
    /\ obs.storeAtStart = Serialize({})
    /\ current_djs # {}

\* C10: the startup pass runs one cycle per campaign, in order, before the
\* interval exists; no periodic pass starts before a full period has elapsed
\* since the interval was created; every periodic pass runs one cycle per
\* campaign in configuration order.
C10_StartupThenPeriodic ==
    /\ mainpc = "startup" => tick = 0
    /\ mainpc \in {"first_tick", "wait"} => passLog = AllTargets
    /\ mainpc \in {"startup", "periodic"} =>
          /\ passLog = [i \in 1..Len(passLog) |-> i]
          /\ Len(passLog) = IF pc = "idle" THEN idx - 1 ELSE idx
    /\ tick >= 1 => sinceEntry >= Period

\* C10 witness: the last periodic pass the model follows has run every campaign.
C10_Witness ==
    /\ mainpc = "wait"
    /\ tick = MaxTicks
    /\ passLog = AllTargets
    /\ lag > 0

\* What a cycle does once its previous set is empty: the initial branch, no
\* notification, and the current set stored when the cycle returns Ok.
FirstRunPath ==
    /\ PastLoad
    /\ previous_djs = {}
    /\ pc # "notify"
    /\ ~ Notified
    /\ PastDiff => obs.initial
    /\ CycleOk => store[Blob] = Serialize(current_djs)

\* C11: a load that finds no blob returns the empty set, as a load of a stored
\* empty snapshot does, and both cycles go down the first-run path: nothing is
\* notified and the current set is what is persisted.
C11_NotFoundIsFirstRun ==
    /\ load_previous_djs(NoBlob, FALSE) = load_previous_djs(Serialize({}), TRUE)
    /\ obs.readErr = "notfound" => FirstRunPath
    /\ ("load" \in Stages /\ obs.readErr = "none" /\ obs.storeAtStart = Serialize({}))
          => FirstRunPath

\* C11 witness: a cycle that found no blob has returned Ok with records on the
\* page, none of them notified.
C11_Witness ==
    /\ CycleOk
    /\ obs.readErr = "notfound"
    /\ current_djs # {}
    /\ ~ Notified

(***************************************************************************)
(* The snapshot store on its own: save_djs and load_previous_djs applied   *)
(* to record sets and stored documents drawn from bounded sets, with a     *)
(* store that answers (get_content fails only when the blob is missing).   *)
(***************************************************************************)
\* Everything main and the cycle keep, for a monitor that has not started a cycle.
IdleMonitor(urls) ==
    /\ campaigns = MkCampaigns(urls)
    /\ page = [i \in 1..Len(urls) |-> {}]
    /\ campaign_stats = <<>>
    /\ mainpc = "startup"
    /\ idx = 1
    /\ tick = 0
    /\ lag = 0
    /\ new_djs = {}
    /\ lastNotifyFailed = [i \in 1..Len(urls) |-> FALSE]
    /\ okNotified = [i \in 1..Len(urls) |-> {}]
    /\ dupNotified = FALSE
    /\ sinceEntry = 0
    /\ passLog = <<>>
    /\ stats_lock = "free"
    /\ http_body = NoBody

\* Records with and without comment and rating.
RtRecords ==
    { Ana0, Ana3, Ben0, DjSupport("Cy", {"cool"}, {}), DjSupport("Dee", {}, {U8Max}) }

\* An object whose "stars" does not fit u8.
BadStarsObj == [name |-> "Eve", comment |-> <<>>, stars |-> <<U8Max + 1>>]

\* Documents a blob may hold: none, legacy lists of names, new-format lists,
\* and documents of neither format.
RtDocs ==
    {NoBlob, BadDoc}
    \cup { JsonDoc({}, names) : names \in SUBSET {"Ana", "Ben", "Cy"} }
    \cup { Serialize(djs) : djs \in SUBSET {Ana3, Ben0} }
    \cup { JsonDoc({DjToJson(Ana3)}, {"Ben"}), JsonDoc({BadStarsObj}, {}),
           JsonDoc({DjToJson(Ben0), BadStarsObj}, {}) }

StoreInit ==
    /\ IdleMonitor(<<Urls[1]>>)
    /\ store \in [BlobNames -> RtDocs]
    /\ current_djs \in SUBSET RtRecords
    /\ previous_djs = {}
    /\ result = "none"
    /\ pc = "rt"
    /\ obs = [ObsIdle EXCEPT !.storeAtStart = store[Blob]]

\* save_djs(config, campaign, &current_djs) on a store that accepts the upload.
RtSave ==
    /\ pc = "rt"
    /\ store' = [store EXCEPT ![Blob] = put_block_blob(@, save_djs(current_djs))]
    /\ obs' = [obs EXCEPT !.stages = Append(@, "save")]
    /\ pc' = "rt_saved"
    /\ UNCHANGED <<stats_lock, http_body, campaigns, page, campaign_stats, mainpc, idx, tick, lag,
                   current_djs, previous_djs, new_djs, result, lastNotifyFailed,
                   okNotified, dupNotified, sinceEntry, passLog>>

\* load_previous_djs(config, campaign), of the blob as found or right after the save.
RtLoad ==
    /\ pc \in {"rt", "rt_saved"}
    /\ LET r == load_previous_djs(store[Blob], store[Blob].exists) IN
       /\ previous_djs' = r.djs
       /\ result' = IF r.ok THEN "ok" ELSE "err"
    /\ obs' = [obs EXCEPT !.stages = Append(@, "load")]
    /\ pc' = "rt_loaded"
    /\ store' = [store EXCEPT ![Blob] = blob_after_load(@)]
    /\ UNCHANGED <<stats_lock, http_body, campaigns, page, campaign_stats, mainpc, idx, tick, lag,
                   current_djs, new_djs, lastNotifyFailed, okNotified,
                   dupNotified, sinceEntry, passLog>>

StoreNext == RtSave \/ RtLoad

StoreSpec == StoreInit /\ [][StoreNext]_vars

\* C12: for any record set (empty, one, many; with or without comment or
\* rating), save_djs followed at once by load_previous_djs returns Ok with a set
\* structurally equal to the saved one.
C12_RoundTrip ==
    (pc = "rt_loaded" /\ "save" \in Stages) =>
        /\ result = "ok"
        /\ \A d \in current_djs : \E p \in previous_djs : DjEq(d, p)
        /\ \A p \in previous_djs : \E d \in current_djs : DjEq(d, p)
        /\ Cardinality(previous_djs) = Cardinality(current_djs)

\* C12 witness: a set of four records, some with and some without comment and
\* rating, was saved over a legacy document and loaded back.
C12_Witness ==
    /\ pc = "rt_loaded"
    /\ "save" \in Stages
    /\ obs.storeAtStart = LegacyDoc
    /\ Cardinality(current_djs) = 4
    /\ \E d \in previous_djs : d.comment # {} /\ d.stars # {}
    /\ \E d \in previous_djs : d.comment = {} /\ d.stars # {}

\* The document is a list of bare names only.
LegacyOnly(doc) == doc.exists /\ doc.valid /\ doc.objs = {} /\ doc.strs # {}

\* The document is of neither format: not JSON, names mixed with objects, or an
\* object that is no DjSupport.
NeitherFormat(doc) ==
    /\ doc.exists
    /\ \/ ~ doc.valid
       \/ doc.objs # {} /\ doc.strs # {}
       \/ \E o \in doc.objs : o.stars # <<>> /\ o.stars[1] \notin 0..U8Max

\* C13: a stored list of bare names loads as one record per name, comment and
\* rating absent, every name kept and none added; a document of neither format
\* makes the load fail instead of returning the empty set.
C13_LegacyLoad ==
    (pc = "rt_loaded" /\ "save" \notin Stages) =>
        /\ LegacyOnly(obs.storeAtStart) =>
              /\ result = "ok"
              /\ { d.name : d \in previous_djs } = obs.storeAtStart.strs
              /\ Cardinality(previous_djs) = Cardinality(obs.storeAtStart.strs)
              /\ \A d \in previous_djs : d.comment = {} /\ d.stars = {}
        /\ NeitherFormat(obs.storeAtStart) => result = "err"

\* C13 witness: a legacy list of three names has been loaded as three records.
C13_Witness ==
    /\ pc = "rt_loaded"
    /\ "save" \notin Stages
    /\ LegacyOnly(obs.storeAtStart)
    /\ Cardinality(previous_djs) = 3
    /\ result = "ok"

\* C14: load_previous_djs leaves the blob as it found it, so a legacy document
\* stays as it is through the load, the diff, the notification and a failed
\* save; a cycle that returns Ok from a legacy document has replaced it by a
\* document of the new format holding the extracted set.
C14_UpgradeOnSaveOnly ==
    /\ ("load" \in Stages /\ "save" \notin Stages) => store[Blob] = obs.storeAtStart
    /\ (pc = "ret" /\ result = "err") => store[Blob] = obs.storeAtStart
    /\ (CycleOk /\ LegacyOnly(obs.storeAtStart)) =>
          /\ store[Blob].strs = {}
          /\ ParseNewOk(store[Blob])
          /\ ParseNew(store[Blob]) = current_djs

\* C14 witness: a cycle that started from the legacy list of names has returned
\* Ok and left a document of records.
C14_Witness ==
    /\ CycleOk
    /\ obs.storeAtStart = LegacyDoc
    /\ previous_djs = ParseOld(LegacyDoc)
    /\ store[Blob].objs # {}

\* The running cycle extracted exactly the set that was stored when it started.
SameAsStored ==
    /\ obs.fetched = "ok"
    /\ load_previous_djs(obs.storeAtStart, TRUE).ok
    /\ current_djs = Snapshot(obs.storeAtStart)

\* C15: the difference of a set with itself is empty, for every set of records;
\* a cycle that extracts exactly the stored set sends no notification, and the
\* stored snapshot is that set at every later point of the cycle.
C15_DiffIdempotent ==
    /\ \A S \in SUBSET RtRecords : Difference(S, S) = {}
    /\ SameAsStored =>
          /\ ~ Notified
          /\ pc # "notify"
          /\ Snapshot(store[Blob]) = current_djs

\* C15 witness: a cycle whose page held the stored, non-empty set went through
\* the diff and the save and returned Ok.
C15_Witness ==
    /\ CycleOk
    /\ SameAsStored
    /\ obs.readErr = "none"
    /\ current_djs = {Ana3, Ben0}
    /\ ~ obs.initial
    /\ "save" \in Stages

(***************************************************************************)
(* The extraction of fetch_dj_list, on parsed documents.                   *)
(*                                                                         *)
(* A text is a sequence of tokens: the star glyph, a space, a newline, a   *)
(* comma, the phrase "Support from", the two noise prefixes, and words.    *)
(* A node is an element (tag, kids) or a text node (tag "#text", text).    *)
(***************************************************************************)
STAR == "*"
SP == " "
NL == "\n"
COMMA == ","
SF == "Support from"
GM == "Get Mad"
CS == "Currently subscribed"
L150 == "L150"
L99 == "L99"

\* str::len of a token, in bytes: the star glyph U+2B50 is three bytes in UTF-8,
\* L150 and L99 stand for words of 150 and 99 letters, and every other token is
\* ASCII text, one byte per character.
TokLen(t) ==
    IF t = L150 THEN 150
    ELSE IF t = L99 THEN 99
    ELSE IF t = STAR THEN 3
    ELSE Len(t)

RECURSIVE ByteLen(_)
\* str::len
ByteLen(s) == IF s = <<>> THEN 0 ELSE TokLen(Head(s)) + ByteLen(Tail(s))

\* The bound of name.len() < 100 and s.len() < 100.
MaxNameLen == 100

IsWs(t) == t \in {SP, NL}

RECURSIVE TrimStart(_)
TrimStart(s) == IF s # <<>> /\ IsWs(Head(s)) THEN TrimStart(Tail(s)) ELSE s

RECURSIVE TrimEnd(_)
TrimEnd(s) ==
    IF s # <<>> /\ IsWs(s[Len(s)]) THEN TrimEnd(SubSeq(s, 1, Len(s) - 1)) ELSE s

\* str::trim
Trim(s) == TrimEnd(TrimStart(s))

\* The index of the first occurrence of the token from i on, 0 if none.
IndexOf(s, t, i) ==
    LET hits == { j \in i..Len(s) : s[j] = t } IN
    IF hits = {} THEN 0 ELSE CHOOSE j \in hits : \A k \in hits : j <= k

\* str::contains
Contains(s, t) == IndexOf(s, t, 1) # 0

\* str::starts_with
StartsWith(s, t) == s # <<>> /\ s[1] = t

RECURSIVE SplitOn(_, _)
\* str::split(sep): the pieces between the occurrences of sep.
SplitOn(s, sep) ==
    LET i == IndexOf(s, sep, 1) IN
    IF i = 0 THEN <<s>>
    ELSE <<SubSeq(s, 1, i - 1)>> \o SplitOn(SubSeq(s, i + 1, Len(s)), sep)

\* str::matches(t).count()
Count(s, t) == Cardinality({ i \in 1..Len(s) : s[i] = t })

RECURSIVE MapTrim(_)
MapTrim(ls) == IF ls = <<>> THEN <<>> ELSE <<Trim(Head(ls))>> \o MapTrim(Tail(ls))

NonEmpty(s) == s # <<>>

\* full_text.lines().map(|l| l.trim()).filter(|l| !l.is_empty())
TrimmedLines(s) == SelectSeq(MapTrim(SplitOn(s, NL)), NonEmpty)

RECURSIVE Join(_)
\* comment_parts.join(" ")
Join(ls) ==
    IF ls = <<>> THEN <<>>
    ELSE IF Len(ls) = 1 THEN ls[1]
    ELSE ls[1] \o <<SP>> \o Join(Tail(ls))

RECURSIVE CommentParts(_)
\* for line in lines.iter().skip(1) { if line.starts_with("Support from") { break; } push }
CommentParts(ls) ==
    IF ls = <<>> \/ StartsWith(Head(ls), SF) THEN <<>>
    ELSE <<Head(ls)>> \o CommentParts(Tail(ls))

RECURSIVE ReplaceAnd(_)
\* after_support.replace(" and ", ", ")
ReplaceAnd(s) ==
    IF s = <<>> THEN <<>>
    ELSE IF Len(s) >= 3 /\ s[1] = SP /\ s[2] = "and" /\ s[3] = SP
         THEN <<COMMA, SP>> \o ReplaceAnd(SubSeq(s, 4, Len(s)))
    ELSE <<Head(s)>> \o ReplaceAnd(Tail(s))

\* One entry from the text of a card (min_lines 1) or of a whole element (2).
CardRecord(full_text, min_lines) ==
    LET lines == TrimmedLines(full_text)
        name == Trim(SplitOn(lines[1], STAR)[1])
        comment_text == Trim(Join(CommentParts(Tail(lines))))
        stars == Count(full_text, STAR) % (U8Max + 1)
    IN IF Len(lines) >= min_lines /\ Len(lines) >= 1
          /\ name # <<>> /\ ByteLen(name) < MaxNameLen
       THEN { DjSupport(name,
                        IF comment_text # <<>> THEN {comment_text} ELSE {},
                        IF stars > 0 THEN {stars} ELSE {}) }
       ELSE {}

TextNode(s) == [tag |-> "#text", text |-> s, kids |-> <<>>]
Elem(tag, kids) == [tag |-> tag, text |-> <<>>, kids |-> kids]
Img == Elem("img", <<>>)

RECURSIVE Text(_)
RECURSIVE TextOfAll(_)
\* ElementRef::text().collect::<String>(): the text nodes below, in document order.
Text(node) == IF node.tag = "#text" THEN node.text ELSE TextOfAll(node.kids)
TextOfAll(nodes) == IF nodes = <<>> THEN <<>> ELSE Text(Head(nodes)) \o TextOfAll(Tail(nodes))

RECURSIVE Descendants(_)
RECURSIVE DescendantsOfAll(_)
\* The elements ElementRef::select walks: those below the element, in document order.
Descendants(node) == DescendantsOfAll(node.kids)
DescendantsOfAll(nodes) ==
    IF nodes = <<>> THEN <<>>
    ELSE (IF Head(nodes).tag = "#text" THEN <<>>
          ELSE <<Head(nodes)>> \o Descendants(Head(nodes)))
         \o DescendantsOfAll(Tail(nodes))

IsImg(e) == e.tag = "img"

\* elem.select(&img_selector).next().is_some()
HasImg(e) == SelectSeq(Descendants(e), IsImg) # <<>>

IsDivWithImg(e) == e.tag = "div" /\ HasImg(e)

\* divs_with_img
DivsWithImg(e) == SelectSeq(Descendants(e), IsDivWithImg)

IsInnermost(d) == DivsWithImg(d) = <<>>

\* innermost_divs: nested_count == 0
InnermostDivs(e) == SelectSeq(DivsWithImg(e), IsInnermost)

\* The entries of the profile cards of an element, or of the element as one entry.
CardRecords(e) ==
    IF ~ HasImg(e) THEN {}
    ELSE IF DivsWithImg(e) # <<>>
         THEN UNION { CardRecord(Text(InnermostDivs(e)[i]), 1) :
                        i \in 1..Len(InnermostDivs(e)) }
    ELSE CardRecord(Text(e), 2)

\* The filter on the pieces of the "Support from" list.
IsListName(s) ==
    /\ s # <<>>
    /\ ~ StartsWith(s, GM)
    /\ ~ StartsWith(s, CS)
    /\ ByteLen(s) < MaxNameLen

\* names: the pieces after the first "Support from" of the element's text.
ListNames(e) ==
    IF ~ Contains(Text(e), SF) THEN <<>>
    ELSE SelectSeq(MapTrim(SplitOn(ReplaceAnd(SplitOn(Text(e), SF)[2]), COMMA)), IsListName)

\* if !djs.iter().any(|dj| dj.name == name_str) { djs.insert(name-only record) }
ListInsert(djs, names) ==
    djs \cup { DjSupport(names[i], {}, {}) :
                 i \in { j \in 1..Len(names) : ~ \E dj \in djs : dj.name = names[j] } }

\* One element sibling of the heading: its cards, then its "Support from" list.
ProcessElement(djs, e) == ListInsert(djs \cup CardRecords(e), ListNames(e))

RECURSIVE WalkSiblings(_, _, _)
\* The loop over next_sibling(): it stops at an h3 and skips what is no element.
WalkSiblings(sibs, i, djs) ==
    IF i > Len(sibs) THEN djs
    ELSE IF sibs[i].tag = "h3" THEN djs
    ELSE IF sibs[i].tag = "#text" THEN WalkSiblings(sibs, i + 1, djs)
    ELSE WalkSiblings(sibs, i + 1, ProcessElement(djs, sibs[i]))

\* A mutant of IsSupportHeading: the text of the heading only has to start with the label.
HeadingStartsWith(node) == node.tag = "h3" /\ StartsWith(Trim(Text(node)), "Support")

\* h3 whose text().collect::<String>().trim() == "Support"
IsSupportHeading(node) == node.tag = "h3" /\ Trim(Text(node)) = <<"Support">>

RECURSIVE FindSupport(_, _)
\* document.select(&h3_selector) up to the first match: the siblings after the
\* first Support heading in document order.
FindSupport(nodes, i) ==
    IF i > Len(nodes) THEN [found |-> FALSE, sibs |-> <<>>]
    ELSE IF IsSupportHeading(nodes[i])
         THEN [found |-> TRUE, sibs |-> SubSeq(nodes, i + 1, Len(nodes))]
    ELSE LET below == FindSupport(nodes[i].kids, 1) IN
         IF below.found THEN below ELSE FindSupport(nodes, i + 1)

\* The set fetch_dj_list builds from the parsed document (the children of body).
ExtractDjs(html) ==
    LET h == FindSupport(html, 1) IN
    IF h.found THEN WalkSiblings(h.sibs, 1, {}) ELSE {}

(***************************************************************************)
(* The documents the extraction is applied to: an optional heading,        *)
(* followed by up to MaxBlocks siblings.                                   *)
(***************************************************************************)
MaxBlocks == 2

\* <div><div><img>Ana ***\nGreat</div></div>
CardAna == Elem("div", <<Elem("div", <<Img, TextNode(<<"Ana", SP, STAR, STAR, STAR, NL, "Great">>)>>)>>)

\* A wrapper of two cards: one with a comment, and one whose image sits in a
\* div of its own, so that the innermost div with the image has no text.
CardsBenCy ==
    Elem("div", <<Elem("div", <<Img, TextNode(<<"Ben", NL, SP, "cool", SP, NL>>)>>),
                  Elem("div", <<Elem("div", <<Img>>), TextNode(<<NL, SP, "Cy", SP>>)>>)>>)

\* An element with an image and no div below it: name, comment, and a list.
SingleDee ==
    Elem("p", <<Img, TextNode(<<"Dee", NL, "nice", NL, SF, SP, "Ana">>)>>)

\* An element with an image and one line only.
SingleEve == Elem("div", <<Img, TextNode(<<"Eve">>)>>)

\* <p>Support from Ana, Ben and Cy</p>
PlainList == Elem("p", <<TextNode(<<SF, SP, "Ana", COMMA, SP, "Ben", SP, "and", SP, "Cy">>)>>)

\* <p>Support from Ana *, Get Mad x, Currently subscribed</p>
PlainStar ==
    Elem("p", <<TextNode(<<SF, SP, "Ana", SP, STAR, COMMA, SP, GM, SP, "x", COMMA, CS>>)>>)

\* Names of 150 and of 99 letters, on a card and in a list.
LongNames ==
    Elem("div", <<Elem("div", <<Img, TextNode(<<L150, NL, "hi">>)>>),
                  TextNode(<<SF, SP, L150, COMMA, L99>>)>>)

\* A card whose first line starts with the star glyph.
CardStarFirst == Elem("div", <<Elem("div", <<Img, TextNode(<<STAR, "Ana">>)>>)>>)

\* n star glyphs in a row.
Stars(n) == [i \in 1..n |-> STAR]

\* A card with a name, and a second line of U8Max + 1 star glyphs.
CardManyStars ==
    Elem("div", <<Elem("div", <<Img, TextNode(<<"Fay", NL>> \o Stars(U8Max + 1))>>)>>)

OtherHeading == Elem("h3", <<TextNode(<<"Other">>)>>)
SupportHeading == Elem("h3", <<TextNode(<<"Support">>)>>)
LooseText == TextNode(<<NL, SF, SP, "Zed">>)

Blocks ==
    { CardAna, CardsBenCy, SingleDee, SingleEve, PlainList, PlainStar, LongNames,
      CardStarFirst, CardManyStars, OtherHeading, LooseText }

BlockSeqs == UNION { [1..n -> Blocks] : n \in 0..MaxBlocks }

\* What precedes the siblings: nothing, the heading (bare, or with white space
\* around the label), or headings that are not the section's.
Headings ==
    { <<>>,
      <<SupportHeading>>,
      <<Elem("h3", <<TextNode(<<NL, SP, "Support">>), TextNode(<<SP, NL>>)>>)>>,
      <<Elem("h3", <<TextNode(<<"Support", SP, "DJs">>)>>)>>,
      <<Elem("h2", <<TextNode(<<"Support">>)>>)>>,
      <<OtherHeading, PlainList, SupportHeading>> }

\* The documents: the heading and the siblings under body, or inside a div.
Htmls ==
    { h \o b : h \in Headings, b \in BlockSeqs }
    \cup { <<Elem("div", <<SupportHeading>> \o b), PlainStar>> : b \in BlockSeqs }

\* fetch_dj_list(&campaign.url) with the document the page parses to.
FetchHtml ==
    /\ pc = "fetch"
    /\ \E ok \in BOOLEAN, html \in Htmls :
         LET content == ExtractDjs(html)
             r == fetch_dj_list(ok, content) IN
         /\ obs' = [obs EXCEPT !.stages = Append(@, "fetch"),
                               !.fetched = IF ok THEN "ok" ELSE "failed",
                               !.samePage = ok /\ content = page[idx],
                               !.html = IF ok THEN html ELSE <<>>]
         /\ page' = IF ok THEN [page EXCEPT ![idx] = content] ELSE page
         /\ okNotified' = IF ok /\ content # page[idx]
                          THEN [okNotified EXCEPT ![idx] = {}]
                          ELSE okNotified
         /\ IF r.ok
            THEN /\ current_djs' = r.djs
                 /\ pc' = "load"
                 /\ result' = result
            ELSE /\ current_djs' = current_djs
                 /\ pc' = "ret"
                 /\ result' = "err"
    /\ UNCHANGED <<stats_lock, http_body, campaigns, store, campaign_stats, mainpc, idx, tick, lag,
                   previous_djs, new_djs, lastNotifyFailed, dupNotified,
                   sinceEntry, passLog>>

ExtractInit ==
    /\ IdleMonitor(<<Urls[1]>>)
    /\ store = [b \in BlobNames |-> NoBlob]
    /\ current_djs = {}
    /\ previous_djs = {}
    /\ result = "none"
    /\ pc = "idle"
    /\ obs = ObsIdle

ExtractNext == StartCycle \/ FetchHtml

ExtractSpec == ExtractInit /\ [][ExtractNext]_vars

\* The fetch of the running cycle has returned the extracted set.
Extracted == pc = "load" /\ obs.fetched = "ok"

\* The siblings of the first Support heading of the fetched document.
Section == FindSupport(obs.html, 1).sibs

\* The element siblings of the section, up to the next h3.
RECURSIVE SectionElems(_, _)
SectionElems(sibs, i) ==
    IF i > Len(sibs) \/ sibs[i].tag = "h3" THEN {}
    ELSE (IF sibs[i].tag = "#text" THEN {} ELSE {sibs[i]}) \cup SectionElems(sibs, i + 1)

\* The records the cards of the section yield.
SectionCards == UNION { CardRecords(e) : e \in SectionElems(Section, 1) }

\* C16: whatever the order of the siblings of the section, the extracted set
\* keeps every record of a profile card, and holds no name-only record of a
\* "Support from" list whose name a kept profile-card record bears (the original
\* claim).
C16_TierPrecedence ==
    Extracted =>
        /\ SectionCards \subseteq current_djs
        /\ \A b \in current_djs \ SectionCards :
              ~ \E a \in SectionCards : a.name = b.name

\* C17: every extracted record has a name that is trimmed, non-empty, shorter
\* than 100 bytes and free of the star glyph, a comment that is trimmed and
\* non-empty if present, and a rating of at least 1 if present (the original
\* claim).
C17_RecordInvariant ==
    Extracted =>
        \A d \in current_djs :
            /\ d.name # <<>>
            /\ Trim(d.name) = d.name
            /\ ByteLen(d.name) < MaxNameLen
            /\ ~ Contains(d.name, STAR)
            /\ \A c \in d.comment : c # <<>> /\ Trim(c) = c
            /\ \A s \in d.stars : s >= 1

RECURSIVE AllNodes(_)
\* Every node of the document.
AllNodes(nodes) ==
    IF nodes = <<>> THEN {}
    ELSE {Head(nodes)} \cup AllNodes(Head(nodes).kids) \cup AllNodes(Tail(nodes))

\* No h3 of the document has the trimmed text "Support".
NoSupportH3(html) ==
    \A n \in AllNodes(html) : ~ (n.tag = "h3" /\ Trim(Text(n)) = <<"Support">>)

\* C18: a fetched document without an h3 whose trimmed text is "Support" makes
\* fetch_dj_list return Ok with the empty set.
C18_NoHeadingNoRecords ==
    (obs.fetched = "ok" /\ NoSupportH3(obs.html)) =>
        /\ pc = "load"
        /\ result # "err"
        /\ current_djs = {}

\* C18 witness: a document with an h3 "Support DJs", followed by a list of names
\* and a profile card, was fetched and nothing was extracted.
C18_Witness ==
    /\ Extracted
    /\ NoSupportH3(obs.html)
    /\ obs.html = <<Elem("h3", <<TextNode(<<"Support", SP, "DJs">>)>>), PlainList, CardAna>>
    /\ current_djs = {}

(***************************************************************************)
(* Campaign names: Config::get_campaigns applied to one URL drawn from the *)
(* texts of up to MaxUrlLen characters over '/', 'a' and 'b'.              *)
(***************************************************************************)
MaxUrlLen == 4

UrlInputs == UNION { [1..n -> {"/", "a", "b"}] : n \in 0..MaxUrlLen }

Unknown == <<"u", "n", "k", "n", "o", "w", "n">>

\* The monitor before its campaigns are built from the URLs.
UrlInit ==
    /\ campaigns = <<>>
    /\ store = <<>>
    /\ page = <<>>
    /\ campaign_stats = <<>>
    /\ mainpc = "config"
    /\ idx = 1
    /\ tick = 0
    /\ lag = 0
    /\ pc = "idle"
    /\ current_djs = {}
    /\ previous_djs = {}
    /\ new_djs = {}
    /\ result = "none"
    /\ obs = ObsIdle
    /\ lastNotifyFailed = <<>>
    /\ okNotified = <<>>
    /\ dupNotified = FALSE
    /\ sinceEntry = 0
    /\ passLog = <<>>
    /\ stats_lock = "free"
    /\ http_body = NoBody

\* get_campaigns: each URL becomes a Campaign named by extract_campaign_name.
GetCampaigns ==
    /\ mainpc = "config"
    /\ \E u \in UrlInputs :
         /\ campaigns' = MkCampaigns(<<u>>)
         /\ store' = [b \in {get_blob_name(campaigns'[1])} |-> NoBlob]
    /\ page' = <<{}>>
    /\ lastNotifyFailed' = <<FALSE>>
    /\ okNotified' = <<{}>>
    /\ mainpc' = "startup"
    /\ UNCHANGED <<stats_lock, http_body, campaign_stats, idx, tick, lag, pc, current_djs, previous_djs,
                   new_djs, result, obs, dupNotified, sinceEntry, passLog>>

UrlNext == GetCampaigns \/ StartCycle

UrlSpec == UrlInit /\ [][UrlNext]_vars

\* The non-empty pieces of the URL between its slashes.
Segments(url) == SelectSeq(SplitOn(url, "/"), NonEmpty)

\* C19: the name of a campaign is the last non-empty piece of its URL between
\* slashes, and "unknown" when the URL has no such piece (the original claim).
C19_CampaignName ==
    mainpc # "config" =>
        \A i \in 1..Len(campaigns) :
            campaigns[i].name =
                IF Segments(campaigns[i].url) # <<>>
                THEN Segments(campaigns[i].url)[Len(Segments(campaigns[i].url))]
                ELSE Unknown

(***************************************************************************)
(* Collaborators that may never respond.  The awaits of check_for_new_djs  *)
(* (reqwest::get, get_content, put_block_blob, the Mailgun send) carry no  *)
(* timeout, so a call that gets no response never returns: there is no     *)
(* step out of "hung".                                                     *)
(***************************************************************************)
NoResponse ==
    /\ pc \in {"fetch", "load", "notify", "save"}
    /\ pc' = "hung"
    /\ UNCHANGED <<stats_lock, http_body, campaigns, store, page, campaign_stats, mainpc, idx, tick, lag,
                   current_djs, previous_djs, new_djs, result, obs,
                   lastNotifyFailed, okNotified, dupNotified, sinceEntry, passLog>>

HangNext == Next \/ NoResponse

\* Every step that can be taken is eventually taken: the runtime polls the task,
\* the timer runs, and a collaborator that responds does so in time.
HangSpec == Init /\ [][HangNext]_vars /\ WF_vars(HangNext)

\* C20: every started cycle ends, and every campaign is checked in every pass,
\* also when a collaborator call never responds (the original claim).
C20_CyclesEnd ==
    /\ (pc = "fetch") ~> (pc = "ret")
    /\ \A i \in 1..Len(Urls) : <>(tick = MaxTicks /\ idx = i /\ pc = "ret")

\* The place of a stage in check_for_new_djs.
StageRank(s) ==
    CASE s = "fetch" -> 1
      [] s = "load" -> 2
      [] s = "notify" -> 3
      [] s = "save" -> 4
      [] s = "stats" -> 5

LastStage == IF obs.stages = <<>> THEN "none" ELSE obs.stages[Len(obs.stages)]

\* C21: the stages of a cycle run in the order fetch, load, diff, notify, save,
\* stats update, each at most once; the load follows a successful fetch, the
\* diff a successful load, the notification a non-empty diff, and the stats
\* update a successful save; a cycle that failed ends at the stage that failed,
\* except that the save follows a failed notification.
C21_StageOrder ==
    /\ \A i, j \in 1..Len(obs.stages) :
          i < j => StageRank(obs.stages[i]) < StageRank(obs.stages[j])
    /\ pc = "fetch" => obs.stages = <<>>
    /\ "load" \in Stages => obs.fetched = "ok" /\ obs.stages[1] = "fetch"
    /\ pc = "load" => LastStage = "fetch"
    /\ pc = "diff" => LastStage = "load"
    /\ pc = "notify" =>
          LastStage = "load" /\ new_djs = Difference(current_djs, previous_djs) /\ new_djs # {}
    /\ "notify" \in Stages => "load" \in Stages
    /\ pc = "save" => LastStage \in {"load", "notify"}
    /\ "save" \in Stages => "load" \in Stages
    /\ pc = "stats" => LastStage = "save"
    /\ "stats" \in Stages =>
          /\ obs.stages[Len(obs.stages) - 1] = "save"
          /\ store[Blob] = Serialize(current_djs)
    /\ (pc = "ret" /\ result = "err") => LastStage \in {"fetch", "load", "save"}
    /\ obs.fetched = "failed" => obs.stages = <<"fetch">>
    /\ obs.sent = "failed" => (pc \in {"save", "stats", "ret"} /\ (pc = "ret" => "save" \in Stages))

\* C21 witness: a cycle went through all five stages, its notification failed,
\* and it returned Ok.
C21_Witness ==
    /\ CycleOk
    /\ obs.stages = <<"fetch", "load", "notify", "save", "stats">>
    /\ obs.sent = "failed"

\* How often a stage has run in the running cycle.
Runs(s) == Cardinality({ i \in 1..Len(obs.stages) : obs.stages[i] = s })

\* C22: in one cycle the fetch, the load, the notification and the save are each
\* called at most once, whether they succeed or fail; a pass runs at most one
\* cycle per campaign, so what failed is tried again only after the next tick.
C22_NoRetry ==
    /\ \A s \in {"fetch", "load", "notify", "save"} : Runs(s) <= 1
    /\ \A i, j \in 1..Len(passLog) : i < j => passLog[i] < passLog[j]
    /\ (pc = "ret" /\ result = "err") => Runs(LastStage) = 1

\* C22 witness: a notification of campaign 1 failed in the startup pass, nothing
\* was retried, and the cycle of the first tick sent one notification, once.
C22_Witness ==
    /\ tick = 1
    /\ idx = 1
    /\ lastNotifyFailed[1]
    /\ pc = "ret"
    /\ Runs("notify") = 1
    /\ passLog = <<1>>

(***************************************************************************)
(* The HTTP server next to the monitor loop: get_campaigns and             *)
(* health_check run at any time, one request at a time, and                *)
(* update_campaign_stats is split at its lock acquisition.                 *)
(***************************************************************************)
\* A mutant of get_campaigns: the summary is emptied once it has been reported.
GetCampaignsDrain(stats) ==
    [body |-> [kind |-> "campaigns", campaigns |-> stats], stats |-> <<>>]

\* get_campaigns: the body holds a clone of the summary, which is left as it is.
get_campaigns(stats) ==
    [body |-> [kind |-> "campaigns", campaigns |-> stats], stats |-> stats]

\* health_check: "OK", without a look at the state.
health_check == [kind |-> "health", campaigns |-> <<>>]

\* let stats = state.campaign_stats.read().await;
StatusAcquire ==
    /\ stats_lock = "free"
    /\ stats_lock' = "read"
    /\ UNCHANGED <<campaigns, store, page, campaign_stats, mainpc, idx, tick, lag, pc,
                   current_djs, previous_djs, new_djs, result, obs, lastNotifyFailed,
                   okNotified, dupNotified, sinceEntry, passLog, http_body>>

\* Json(json!({.. "campaigns": stats.clone() ..})), and the read guard is dropped.
StatusRespond ==
    /\ stats_lock = "read"
    /\ http_body' = get_campaigns(campaign_stats).body
    /\ campaign_stats' = get_campaigns(campaign_stats).stats
    /\ stats_lock' = "free"
    /\ UNCHANGED <<campaigns, store, page, mainpc, idx, tick, lag, pc,
                   current_djs, previous_djs, new_djs, result, obs, lastNotifyFailed,
                   okNotified, dupNotified, sinceEntry, passLog>>

HealthCheck ==
    /\ http_body' = health_check
    /\ UNCHANGED <<campaigns, store, page, campaign_stats, mainpc, idx, tick, lag, pc,
                   current_djs, previous_djs, new_djs, result, obs, lastNotifyFailed,
                   okNotified, dupNotified, sinceEntry, passLog, stats_lock>>

\* let mut stats = state.campaign_stats.write().await; (waits while a reader holds the lock)
StatsAcquire ==
    /\ pc = "stats"
    /\ stats_lock = "free"
    /\ stats_lock' = "write"
    /\ pc' = "stats_w"
    /\ UNCHANGED <<campaigns, store, page, campaign_stats, mainpc, idx, tick, lag,
                   current_djs, previous_djs, new_djs, result, obs, lastNotifyFailed,
                   okNotified, dupNotified, sinceEntry, passLog, http_body>>

\* The body of update_campaign_stats under the write guard, dropped at its Ok(()).
StatsWrite ==
    /\ pc = "stats_w"
    /\ campaign_stats' = update_campaign_stats(campaign_stats, Campaign,
                                               Cardinality(current_djs), tick)
    /\ obs' = [obs EXCEPT !.stages = Append(@, "stats")]
    /\ stats_lock' = "free"
    /\ pc' = "ret"
    /\ result' = "ok"
    /\ UNCHANGED <<campaigns, store, page, mainpc, idx, tick, lag, current_djs,
                   previous_djs, new_djs, lastNotifyFailed, okNotified,
                   dupNotified, sinceEntry, passLog, http_body>>

StatusInit ==
    /\ IdleMonitor(<<Urls[1]>>)
    /\ store \in [BlobNames -> InitDocs]
    /\ current_djs = {}
    /\ previous_djs = {}
    /\ result = "none"
    /\ pc = "idle"
    /\ obs = ObsIdle

StatusNext ==
    \/ StartCycle
    \/ Fetch
    \/ Load
    \/ Diff
    \/ Notify
    \/ Save
    \/ StatsAcquire
    \/ StatsWrite
    \/ Return
    \/ EndStartup
    \/ FirstTick
    \/ Tick
    \/ EndPass
    \/ TimeAdvance
    \/ StatusAcquire
    \/ StatusRespond
    \/ HealthCheck

StatusSpec == StatusInit /\ [][StatusNext]_vars

\* The cycle is suspended in a call to a collaborator.
Suspended == pc \in {"fetch", "load", "notify", "save"}

\* C23: the monitor loop holds the lock of the summary only inside
\* update_campaign_stats, never while a cycle is suspended in a fetch, load,
\* notification or save, so that a status read can then take the lock or finish;
\* a step of the status or liveness handler changes neither the summary nor any
\* stored snapshot.
C23_LockScope ==
    /\ [](stats_lock = "write" => pc = "stats_w")
    /\ [](Suspended => (stats_lock # "write" /\ ENABLED (StatusAcquire \/ StatusRespond)))
    /\ [][(http_body' # http_body
             \/ (stats_lock' # stats_lock /\ "read" \in {stats_lock, stats_lock'}))
             => (campaign_stats' = campaign_stats /\ store' = store)]_vars

\* C23 witness: while the cycle was suspended in save_djs, with an entry in the
\* summary, a status read has been answered with that summary.
C23_Witness ==
    /\ pc = "save"
    /\ campaign_stats # <<>>
    /\ http_body = [kind |-> "campaigns", campaigns |-> campaign_stats]
    /\ stats_lock = "free"

\* C24: once the cycle of a campaign has ended, in success or in error, the
\* summary holds an entry of that campaign whose last_checked is the time of
\* this cycle (the original claim).
C24_StatsAfterEachCycle ==
    pc = "ret" =>
        \E i \in 1..Len(campaign_stats) :
            /\ campaign_stats[i].name = Campaign.name
            /\ campaign_stats[i].last_checked = {tick}

\* The texts the card tiers read in an element: those of its innermost divs
\* with an image, or its own when it has an image and no such div.
CardTexts(e) ==
    IF ~ HasImg(e) THEN {}
    ELSE IF DivsWithImg(e) # <<>>
         THEN { Text(InnermostDivs(e)[i]) : i \in 1..Len(InnermostDivs(e)) }
    ELSE { Text(e) }

\* C25: the record of a card (of two lines or more, with an acceptable name) has
\* as its stars the number of star glyphs of the card's text, whatever that
\* number, and none exactly when the number is zero (the original claim).
C25_StarsIsCount ==
    Extracted =>
        \A e \in SectionElems(Section, 1) : \A t \in CardTexts(e) :
            LET lines == TrimmedLines(t)
                name == Trim(SplitOn(lines[1], STAR)[1])
                n == Count(t, STAR)
            IN (Len(lines) >= 2 /\ name # <<>> /\ ByteLen(name) < MaxNameLen) =>
                  \E d \in current_djs :
                      /\ d.name = name
                      /\ d.stars = IF n = 0 THEN {} ELSE {n}

(***************************************************************************)
(* Restarts.  Between two ticks the process may be stopped and started     *)
(* again: main runs from its beginning with a fresh AppState, while the    *)
(* blobs and the pages are what they were.                                 *)
(***************************************************************************)
Restart ==
    /\ mainpc = "wait"
    /\ pc = "idle"
    /\ mainpc' = "startup"
    /\ idx' = 1
    /\ campaign_stats' = <<>>
    /\ passLog' = <<>>
    /\ lag' = 0
    /\ sinceEntry' = 0
    /\ stats_lock' = "free"
    /\ http_body' = NoBody
    /\ UNCHANGED <<campaigns, store, page, tick, pc, current_djs, previous_djs,
                   new_djs, result, obs, lastNotifyFailed, okNotified, dupNotified>>

RestartNext == Next \/ Restart

RestartSpec == Init /\ [][RestartNext]_vars

\* Restarts under the scheduling of FairSpec: main's own steps and the timer go
\* on; a restart is an event of the environment and nothing forces it.
FairRestartSpec == RestartSpec /\ WF_vars(MainStep) /\ WF_vars(TimeAdvance)

\* C26: with or without restarts, in the startup pass as in a periodic pass, the
\* previous set of a cycle is what the blob held when the cycle loaded it (the
\* empty set when the read failed); whether the cycle notifies, and of what, is
\* decided by that set and the extracted set alone; and a cycle that returns Ok
\* leaves the extracted set in the blob.
C26_StoreIsTheMemory ==
    /\ PastLoad =>
          previous_djs = IF obs.readErr = "none" THEN Snapshot(obs.storeAtStart) ELSE {}
    /\ PastDiff =>
          /\ obs.initial = (previous_djs = {})
          /\ Notified = (previous_djs # {} /\ Difference(current_djs, previous_djs) # {})
          /\ Notified => new_djs = Difference(current_djs, previous_djs)
    /\ CycleOk => Snapshot(store[Blob]) = current_djs

\* C26 witness: after a tick and a restart, a cycle of the new startup pass found
\* a non-empty snapshot in the store, sent a notification and returned Ok.
C26_Witness ==
    /\ tick = 1
    /\ mainpc = "startup"
    /\ CycleOk
    /\ obs.sent = "ok"
    /\ previous_djs # {}
    /\ campaign_stats # <<>>

(***************************************************************************)
(* Two campaigns from any two distinct URLs of a small set, in which some  *)
(* URLs end in the same path segment; the startup pass.                    *)
(***************************************************************************)
UrlSet ==
    { <<"h", "/", "r", "/", "a">>, <<"h", "/", "r", "/", "a", "/">>,
      <<"g", "/", "a">>, <<"h", "/", "r", "/", "b">> }

\* urls.retain(|url| seen.insert(url.clone())): the URLs left are distinct strings.
UrlPairs == { p \in UrlSet \X UrlSet : p[1] # p[2] }

PairInit ==
    /\ \E urls \in UrlPairs : IdleMonitor(urls)
    /\ store \in [BlobNames -> InitDocs]
    /\ current_djs = {}
    /\ previous_djs = {}
    /\ result = "none"
    /\ pc = "idle"
    /\ obs = ObsIdle

PairNext ==
    \/ StartCycle
    \/ Fetch
    \/ Load
    \/ Diff
    \/ Notify
    \/ Save
    \/ UpdateStats
    \/ Return
    \/ EndStartup

PairSpec == PairInit /\ [][PairNext]_vars

\* C27: no step of the cycle of one campaign changes the blob that holds the
\* snapshot of another campaign (the original claim).
C27_SnapshotIsolation ==
    [][\A j \in 1..Len(campaigns) :
          (idx <= Len(campaigns) /\ j # idx) =>
              store'[get_blob_name(campaigns[j])] = store[get_blob_name(campaigns[j])]]_vars

\* The entry counts the records of the snapshot stored for the campaign.
CountMatchesStore(i, k) ==
    campaign_stats[i].dj_count = Cardinality(Snapshot(store[get_blob_name(campaigns[k])]))

\* C28 (as stated): in every state the summary has at most one entry per
\* campaign name, and the dj_count of an entry is the size of the snapshot stored
\* for its campaign.
C28_SummaryInvariant ==
    /\ \A i, j \in 1..Len(campaign_stats) :
          i # j => campaign_stats[i].name # campaign_stats[j].name
    /\ \A i \in 1..Len(campaign_stats) : \A k \in 1..Len(campaigns) :
          campaigns[k].name = campaign_stats[i].name => CountMatchesStore(i, k)

\* C28 (amended): the same, except for the entry of the campaign whose cycle is
\* between the return of save_djs and the update of the summary that follows it.
C28_SummaryOutsideUpdate ==
    /\ \A i, j \in 1..Len(campaign_stats) :
          i # j => campaign_stats[i].name # campaign_stats[j].name
    /\ \A i \in 1..Len(campaign_stats) : \A k \in 1..Len(campaigns) :
          (campaigns[k].name = campaign_stats[i].name
             /\ ~ (pc \in {"stats", "stats_w"} /\ campaigns[idx].name = campaign_stats[i].name))
          => CountMatchesStore(i, k)

\* C28 witness: both campaigns have an entry from the startup pass, and the cycle
\* of the first tick has replaced the count of the first one by another.
C28_Witness ==
    /\ tick = 1
    /\ idx = 1
    /\ CycleOk
    /\ Len(campaign_stats) = 2
    /\ campaign_stats[1].dj_count = 2
    /\ Cardinality(Snapshot(obs.storeAtStart)) = 1

====
